---- MODULE Spec2Model ----
(***************************************************************************)
(* Fiat-Shamir transcript engine: the duplex sponge challenger, the prover *)
(* transcript state and the verifier transcript state.                     *)
(*                                                                         *)
(* Field elements are the canonical representatives 0..ORDER-1.  An        *)
(* extension scalar is the tuple of its DIMENSION basis coefficients.      *)
(* An Option is a sequence: None is << >> and Some(x) is << x >>.          *)
(***************************************************************************)
EXTENDS Integers, Sequences, FiniteSets, TLC

VARIABLES
    ch,         \* a stand-alone DuplexChallenger
    chHist,     \* history of the calls made on ch
    prover,     \* ProverState
    prover2,    \* ProverState of the second run
    verifier,   \* VerifierState
    verifier2,  \* VerifierState of the second run
    phase,      \* which side is running
    script,     \* the operations the prover has issued, in order
    todo,       \* the operations the verifier still has to replay
    log,        \* challenges obtained so far, per party
    last,       \* the last operation, its arguments, pre-state and result
    alt         \* how the second run differs from the first

vars == <<ch, chHist, prover, prover2, verifier, verifier2, phase, script, todo, log, last, alt>>

----------------------------------------------------------------------------
(* Bounds of the model *)

ORDER == 5          \* order of the field F
DIMENSION == 4      \* EF::DIMENSION, at most RATE
LANES == 2          \* width of Packed<F>
MaxOps == 3         \* prover operations per run
MaxVOps == 2        \* verifier operations per run on an arbitrary proof
MaxChalOps == 5     \* calls on the stand-alone challenger
MaxProofLen == 9    \* length of an arbitrary proof

(* Program constants *)

WIDTH == 16
RATE == 8
LEAN_ISA_VECTOR_LEN == 8

----------------------------------------------------------------------------
(* Helpers *)

None == << >>
Some(x) == << x >>
unwrap(o) == o[1]

F == 0 .. (ORDER - 1)
ZERO == 0

Zeros(n) == [i \in 1..n |-> ZERO]

Min(a, b) == IF a < b THEN a ELSE b

RECURSIVE Pow2(_)
Pow2(n) == IF n = 0 THEN 1 ELSE 2 * Pow2(n - 1)

\* F::bits(): the least b with 2^b >= ORDER
FBits == CHOOSE b \in 0..ORDER : Pow2(b) >= ORDER /\ \A c \in 0..(b - 1) : Pow2(c) < ORDER

\* Op applied to v: names an intermediate value
With(v, Op(_)) == Op(v)

\* The nonlinear step of the permutation
Mix == [x \in F |-> (x * x + (x \div 2)) % ORDER]

\* The weighted sum of the RATE elements of xs from position i on
Sigma(xs, i) ==
    (2 * xs[i] + xs[i + 1] + 2 * xs[i + 2] + xs[i + 3]
     + 2 * xs[i + 4] + xs[i + 5] + 2 * xs[i + 6] + xs[i + 7]) % ORDER

\* permutation.permute_mut: an opaque bijection of F^WIDTH.  The stand-in is
\* one Feistel round in each direction: the capacity half takes a nonlinear
\* function of the rate half, then the rate half takes a nonlinear function
\* of the new capacity half.  Each half-round is invertible, and every
\* position of the rate half of the output depends on every input position.
Permute(s) ==
    With(s, LAMBDA x :
      With(Sigma(x, 1), LAMBDA a :
        With([i \in (RATE + 1) .. WIDTH |-> (x[i] + Mix[(a + i) % ORDER]) % ORDER],
          LAMBDA cap :
            With(Sigma(cap, RATE + 1), LAMBDA b :
              [i \in 1..WIDTH |->
                 IF i <= RATE THEN (x[i] + Mix[(b + i) % ORDER]) % ORDER
                 ELSE cap[i]]))))

----------------------------------------------------------------------------
(* DuplexChallenger.  perms counts the calls of permute_mut. *)

new == [sponge_state |-> Zeros(WIDTH), output_buffer |-> None, perms |-> 0]

\* duplexing that fills the output buffer before permuting
duplexing_StaleBuffer(c, input_buffer) ==
    LET s1 == IF input_buffer # None
              THEN [i \in 1..WIDTH |->
                      IF i <= RATE THEN unwrap(input_buffer)[i] ELSE c.sponge_state[i]]
              ELSE c.sponge_state
    IN  With(Permute(s1), LAMBDA s2 :
          [sponge_state |-> s2, output_buffer |-> Some(SubSeq(s1, 1, RATE)),
           perms |-> c.perms + 1])

duplexing(c, input_buffer) ==
    LET s1 == IF input_buffer # None
              THEN [i \in 1..WIDTH |->
                      IF i <= RATE THEN unwrap(input_buffer)[i] ELSE c.sponge_state[i]]
              ELSE c.sponge_state
    IN  With(Permute(s1), LAMBDA s2 :
          [sponge_state |-> s2, output_buffer |-> Some(SubSeq(s2, 1, RATE)),
           perms |-> c.perms + 1])

observe(c, value) == duplexing(c, Some(value))

\* sample without the is_none test
sample_AlwaysDuplex(c) ==
    With(duplexing(c, None), LAMBDA c1 :
      [c |-> [c1 EXCEPT !.output_buffer = None], out |-> unwrap(c1.output_buffer)])

\* sample: [c |-> the challenger after the call, out |-> the block returned]
sample(c) ==
    With(IF c.output_buffer = None THEN duplexing(c, None) ELSE c, LAMBDA c1 :
      [c |-> [c1 EXCEPT !.output_buffer = None], out |-> unwrap(c1.output_buffer)])

\* sample_bits: panics when bits >= F::bits()
sample_bits(c, bits) ==
    IF ~(bits < FBits)
    THEN [c |-> c, out |-> 0, panic |-> TRUE]
    ELSE With(sample(c), LAMBDA r :
           [c |-> r.c, out |-> r.out[1] % Pow2(bits), panic |-> FALSE])

----------------------------------------------------------------------------
(* The challenger interface the transcript states call, over DuplexChallenger *)

pad_to_rate(xs) == [i \in 1..RATE |-> IF i <= Len(xs) THEN xs[i] ELSE ZERO]

\* observe_slice: one observe per RATE-sized chunk, the last one zero-padded
RECURSIVE observe_slice(_, _)
observe_slice(c, xs) ==
    IF xs = << >> THEN c
    ELSE LET k == Min(RATE, Len(xs))
         IN  observe_slice(observe(c, pad_to_rate(SubSeq(xs, 1, k))),
                           SubSeq(xs, k + 1, Len(xs)))

\* sample_algebra_element: the first DIMENSION elements of one squeeze
sample_algebra_element(c) ==
    With(sample(c), LAMBDA r :
      [c |-> r.c, out |-> [coeffs |-> SubSeq(r.out, 1, DIMENSION)]])

\* check_witness: observe the witness, then sample_bits(bits) must be 0
check_witness(c, bits, witness) ==
    With(sample_bits(observe(c, pad_to_rate(<< witness >>)), bits), LAMBDA r :
      [c |-> r.c, ok |-> (~r.panic /\ r.out = 0), panic |-> r.panic])

\* The packed search state of one lane: the candidate in S[0], ZERO in the
\* rest of the rate, the real capacity.
LaneState(c, w) ==
    [i \in 1..WIDTH |-> IF i = 1 THEN w ELSE IF i <= RATE THEN ZERO ELSE c.sponge_state[i]]

LaneOk(c, bits, w) == w < ORDER /\ Permute(LaneState(c, w))[1] % Pow2(bits) = 0

\* The batches of LANES consecutive candidates that partition [0, ORDER)
BatchBases == { b \in 0 .. (ORDER - 1) : b % LANES = 0 }

\* The lowest satisfying lane of the batch starting at b, if the batch
\* succeeds; ok is the set of satisfying candidates
BatchWinner(ok, b) ==
    { w \in ok : w \in b .. (b + LANES - 1) /\ \A y \in b .. (w - 1) : y \notin ok }

\* grind: the outcomes of the search.  Any successful batch may be the one
\* found; inside it the lowest satisfying lane is the witness.  The witness
\* is then checked on the real challenger.
grind(c, bits) ==
    IF ~(bits < FBits) THEN { [c |-> c, witness |-> 0, panic |-> TRUE] }
    ELSE LET ok == { w \in 0 .. (ORDER - 1) : LaneOk(c, bits, w) }
         IN  { [c |-> check_witness(c, bits, w).c, witness |-> w, panic |-> FALSE] :
                 w \in UNION { BatchWinner(ok, b) : b \in BatchBases } }

\* One worker of the search on the batch starting at b: it reads the
\* capacity of the prover's sponge into packed local states and leaves the
\* prover as it is.  found holds the lowest satisfying lane, if any.
search_batch(p, bits, b) ==
    [p |-> p,
     found |-> BatchWinner({ w \in b .. (b + LANES - 1) : LaneOk(p.challenger, bits, w) }, b)]

----------------------------------------------------------------------------
(* Extension field helpers *)

\* An element of EF, given by its basis coefficients
EF(bs) == [coeffs |-> bs]

as_basis_coefficients_slice(ef) == ef.coeffs

from_basis_coefficients_slice(bs) == IF Len(bs) = DIMENSION THEN Some(EF(bs)) ELSE None

resize(xs, n, fill) == [i \in 1..n |-> IF i <= Len(xs) THEN xs[i] ELSE fill]

RECURSIVE flatten_scalars_to_base(_)
flatten_scalars_to_base(scalars) ==
    IF scalars = << >> THEN << >>
    ELSE as_basis_coefficients_slice(Head(scalars)) \o flatten_scalars_to_base(Tail(scalars))

RECURSIVE pack_scalars_to_extension(_)
pack_scalars_to_extension(bs) ==
    IF Len(bs) < DIMENSION THEN << >>
    ELSE << unwrap(from_basis_coefficients_slice(SubSeq(bs, 1, DIMENSION))) >>
         \o pack_scalars_to_extension(SubSeq(bs, DIMENSION + 1, Len(bs)))

----------------------------------------------------------------------------
(* ProverState.  panicked records that an assertion of the prover failed. *)

ProverState_new(challenger, padding) ==
    [challenger |-> challenger, proof_data |-> << >>, padding |-> padding,
     n_zeros |-> 0, panicked |-> FALSE]

proof_size(p) == Len(p.proof_data) - p.n_zeros

add_base_scalars(p, scalars) ==
    [p EXCEPT !.proof_data = @ \o scalars,
              !.challenger = observe_slice(@, scalars)]

\* add_extension_scalars filling the pad with ONE instead of ZERO
RECURSIVE add_extension_scalars_PadOne(_, _)
add_extension_scalars_PadOne(p, scalars) ==
    IF scalars = << >> THEN p
    ELSE LET base_scalars == as_basis_coefficients_slice(Head(scalars))
             p1 == IF p.padding
                   THEN [p EXCEPT !.n_zeros = @ + (LEAN_ISA_VECTOR_LEN - Len(base_scalars))]
                   ELSE p
             padded == IF p.padding
                       THEN resize(base_scalars, LEAN_ISA_VECTOR_LEN, 1)
                       ELSE base_scalars
         IN  add_extension_scalars_PadOne(add_base_scalars(p1, padded), Tail(scalars))

RECURSIVE add_extension_scalars(_, _)
add_extension_scalars(p, scalars) ==
    IF scalars = << >> THEN p
    ELSE LET base_scalars == as_basis_coefficients_slice(Head(scalars))
             p1 == IF p.padding
                   THEN [p EXCEPT !.n_zeros = @ + (LEAN_ISA_VECTOR_LEN - Len(base_scalars))]
                   ELSE p
             padded == IF p.padding
                       THEN resize(base_scalars, LEAN_ISA_VECTOR_LEN, ZERO)
                       ELSE base_scalars
         IN  add_extension_scalars(add_base_scalars(p1, padded), Tail(scalars))

\* hint_base_scalars that also observes the hint
hint_base_scalars_Observed(p, scalars) ==
    IF Len(scalars) % LEAN_ISA_VECTOR_LEN # 0
    THEN [p EXCEPT !.panicked = TRUE]
    ELSE [p EXCEPT !.proof_data = @ \o scalars,
                   !.challenger = observe_slice(@, scalars)]

hint_base_scalars(p, scalars) ==
    IF Len(scalars) % LEAN_ISA_VECTOR_LEN # 0
    THEN [p EXCEPT !.panicked = TRUE]
    ELSE [p EXCEPT !.proof_data = @ \o scalars]

hint_extension_scalars(p, scalars) ==
    IF Len(scalars) % LEAN_ISA_VECTOR_LEN # 0
    THEN [p EXCEPT !.panicked = TRUE]
    ELSE [p EXCEPT !.proof_data = @ \o flatten_scalars_to_base(scalars)]

\* sample: [st |-> the prover after the call, out |-> the challenge]
ProverState_sample(p) ==
    With(sample_algebra_element(p.challenger), LAMBDA r :
      [st |-> [p EXCEPT !.challenger = r.c], out |-> r.out])

RECURSIVE ProverState_sample_vec(_, _)
ProverState_sample_vec(p, len) ==
    IF len = 0 THEN [st |-> p, out |-> << >>]
    ELSE With(ProverState_sample(p), LAMBDA r :
           With(ProverState_sample_vec(r.st, len - 1), LAMBDA rest :
             [st |-> rest.st, out |-> << r.out >> \o rest.out]))

ProverState_sample_bits(p, bits) ==
    With(sample_bits(p.challenger, bits), LAMBDA r :
      [st |-> [p EXCEPT !.challenger = r.c, !.panicked = r.panic], out |-> r.out])

\* pow_grinding that pads without counting the pad in n_zeros
pow_grinding_NoZeroCount(p, bits) ==
    IF bits = 0 THEN { p }
    ELSE { IF g.panic THEN [p EXCEPT !.panicked = TRUE]
           ELSE [p EXCEPT
                   !.challenger = g.c,
                   !.proof_data = IF p.padding
                                  THEN @ \o << g.witness >> \o Zeros(LEAN_ISA_VECTOR_LEN - 1)
                                  ELSE @ \o << g.witness >>] :
           g \in grind(p.challenger, bits) }

\* pow_grinding that pushes the witness twice
pow_grinding_PushTwice(p, bits) ==
    IF bits = 0 THEN { p }
    ELSE { IF g.panic THEN [p EXCEPT !.panicked = TRUE]
           ELSE [p EXCEPT
                   !.challenger = g.c,
                   !.proof_data = IF p.padding
                                  THEN @ \o << g.witness, g.witness >>
                                         \o Zeros(LEAN_ISA_VECTOR_LEN - 1)
                                  ELSE @ \o << g.witness, g.witness >>,
                   !.n_zeros = IF p.padding THEN @ + (LEAN_ISA_VECTOR_LEN - 1) ELSE @] :
           g \in grind(p.challenger, bits) }

\* pow_grinding that pads before the witness
pow_grinding_PadFirst(p, bits) ==
    IF bits = 0 THEN { p }
    ELSE { IF g.panic THEN [p EXCEPT !.panicked = TRUE]
           ELSE [p EXCEPT
                   !.challenger = g.c,
                   !.proof_data = IF p.padding
                                  THEN @ \o Zeros(LEAN_ISA_VECTOR_LEN - 1) \o << g.witness >>
                                  ELSE @ \o << g.witness >>,
                   !.n_zeros = IF p.padding THEN @ + (LEAN_ISA_VECTOR_LEN - 1) ELSE @] :
           g \in grind(p.challenger, bits) }

\* pow_grinding: the set of states the call can end in, one per witness the
\* search can return
pow_grinding(p, bits) ==
    IF bits = 0 THEN { p }
    ELSE { IF g.panic THEN [p EXCEPT !.panicked = TRUE]
           ELSE [p EXCEPT
                   !.challenger = g.c,
                   !.proof_data = IF p.padding
                                  THEN @ \o << g.witness >> \o Zeros(LEAN_ISA_VECTOR_LEN - 1)
                                  ELSE @ \o << g.witness >>,
                   !.n_zeros = IF p.padding THEN @ + (LEAN_ISA_VECTOR_LEN - 1) ELSE @] :
           g \in grind(p.challenger, bits) }

\* The proof object handed to the verifier
Proof(data, size, hints, pad) ==
    [proof_data |-> data, proof_size |-> size, merkle_hints |-> hints, padding |-> pad]

----------------------------------------------------------------------------
(* VerifierState.  Every operation gives [st, res, out]: the verifier after *)
(* the call, "Ok" or the error, and the value returned.  res = "panic" is a *)
(* failed assertion.                                                        *)

VerifierState_new(proof, challenger) ==
    [challenger |-> challenger, padding |-> proof.padding,
     proof_data |-> proof.proof_data, merkle_hints |-> proof.merkle_hints, index |-> 0]

\* next_base_scalars_vec that does not observe what it read
next_base_scalars_vec_NoObserve(v, n) ==
    IF v.index > Len(v.proof_data) THEN [st |-> v, res |-> "panic", out |-> << >>]
    ELSE IF n > Len(v.proof_data) - v.index
    THEN [st |-> v, res |-> "ExceededTranscript", out |-> << >>]
    ELSE [st |-> [v EXCEPT !.index = @ + n], res |-> "Ok",
          out |-> SubSeq(v.proof_data, v.index + 1, v.index + n)]

\* next_base_scalars_vec with >= in the bounds check
next_base_scalars_vec_OffByOne(v, n) ==
    IF v.index > Len(v.proof_data) THEN [st |-> v, res |-> "panic", out |-> << >>]
    ELSE IF n >= Len(v.proof_data) - v.index
    THEN [st |-> v, res |-> "ExceededTranscript", out |-> << >>]
    ELSE LET scalars == SubSeq(v.proof_data, v.index + 1, v.index + n)
         IN  [st |-> [v EXCEPT !.index = @ + n,
                               !.challenger = observe_slice(@, scalars)],
              res |-> "Ok", out |-> scalars]

next_base_scalars_vec(v, n) ==
    IF v.index > Len(v.proof_data) THEN [st |-> v, res |-> "panic", out |-> << >>]
    ELSE IF n > Len(v.proof_data) - v.index
    THEN [st |-> v, res |-> "ExceededTranscript", out |-> << >>]
    ELSE LET scalars == SubSeq(v.proof_data, v.index + 1, v.index + n)
         IN  [st |-> [v EXCEPT !.index = @ + n,
                               !.challenger = observe_slice(@, scalars)],
              res |-> "Ok", out |-> scalars]

next_base_scalars_const(v, N) == next_base_scalars_vec(v, N)

\* The loop of next_extension_scalars_vec: n elements still to read, res read so far
RECURSIVE next_extension_scalars_loop(_, _, _)
next_extension_scalars_loop(v, n, res) ==
    IF n = 0 THEN [st |-> v, res |-> "Ok", out |-> res]
    ELSE IF v.padding
    THEN LET r == next_base_scalars_const(v, LEAN_ISA_VECTOR_LEN)
         IN  IF r.res # "Ok" THEN [st |-> r.st, res |-> r.res, out |-> << >>]
             ELSE IF ~(\A i \in (DIMENSION + 1) .. LEAN_ISA_VECTOR_LEN : r.out[i] = ZERO)
             THEN [st |-> r.st, res |-> "panic", out |-> << >>]
             ELSE next_extension_scalars_loop(r.st, n - 1,
                    Append(res, unwrap(from_basis_coefficients_slice(
                                         SubSeq(r.out, 1, DIMENSION)))))
    ELSE LET r == next_base_scalars_vec(v, DIMENSION)
         IN  IF r.res # "Ok" THEN [st |-> r.st, res |-> r.res, out |-> << >>]
             ELSE next_extension_scalars_loop(r.st, n - 1,
                    Append(res, unwrap(from_basis_coefficients_slice(r.out))))

\* next_extension_scalars_vec that checks the whole read before it starts
next_extension_scalars_vec_Atomic(v, n) ==
    IF n * (IF v.padding THEN LEAN_ISA_VECTOR_LEN ELSE DIMENSION)
         > Len(v.proof_data) - v.index
    THEN [st |-> v, res |-> "ExceededTranscript", out |-> << >>]
    ELSE next_extension_scalars_loop(v, n, << >>)

next_extension_scalars_vec(v, n) == next_extension_scalars_loop(v, n, << >>)

\* receive_hint_base_scalars whose bounds check forgets the cursor
receive_hint_base_scalars_NoCursor(v, n) ==
    IF v.index > Len(v.proof_data) THEN [st |-> v, res |-> "panic", out |-> << >>]
    ELSE IF n > Len(v.proof_data)
    THEN [st |-> v, res |-> "ExceededTranscript", out |-> << >>]
    ELSE [st |-> [v EXCEPT !.index = @ + n], res |-> "Ok",
          out |-> SubSeq(v.proof_data, v.index + 1, Min(v.index + n, Len(v.proof_data)))]

receive_hint_base_scalars(v, n) ==
    IF v.index > Len(v.proof_data) THEN [st |-> v, res |-> "panic", out |-> << >>]
    ELSE IF n > Len(v.proof_data) - v.index
    THEN [st |-> v, res |-> "ExceededTranscript", out |-> << >>]
    ELSE [st |-> [v EXCEPT !.index = @ + n], res |-> "Ok",
          out |-> SubSeq(v.proof_data, v.index + 1, v.index + n)]

\* receive_hint_merkle_path that pops the back of the queue
receive_hint_merkle_path_Lifo(v) ==
    IF v.merkle_hints = << >>
    THEN [st |-> v, res |-> "ExceededTranscript", out |-> << >>]
    ELSE [st |-> [v EXCEPT !.merkle_hints = SubSeq(@, 1, Len(@) - 1)], res |-> "Ok",
          out |-> v.merkle_hints[Len(v.merkle_hints)]]

receive_hint_merkle_path(v) ==
    IF v.merkle_hints = << >>
    THEN [st |-> v, res |-> "ExceededTranscript", out |-> << >>]
    ELSE [st |-> [v EXCEPT !.merkle_hints = Tail(@)], res |-> "Ok",
          out |-> Head(v.merkle_hints)]

receive_hint_extension_scalars(v, n) ==
    LET r == receive_hint_base_scalars(v, n * DIMENSION)
    IN  IF r.res # "Ok" THEN r
        ELSE [st |-> r.st, res |-> "Ok", out |-> pack_scalars_to_extension(r.out)]

VerifierState_sample(v) ==
    With(sample_algebra_element(v.challenger), LAMBDA r :
      [st |-> [v EXCEPT !.challenger = r.c], res |-> "Ok", out |-> r.out])

RECURSIVE VerifierState_sample_vec(_, _)
VerifierState_sample_vec(v, len) ==
    IF len = 0 THEN [st |-> v, res |-> "Ok", out |-> << >>]
    ELSE With(VerifierState_sample(v), LAMBDA r :
           With(VerifierState_sample_vec(r.st, len - 1), LAMBDA rest :
             [st |-> rest.st, res |-> "Ok", out |-> << r.out >> \o rest.out]))

VerifierState_sample_bits(v, bits) ==
    With(sample_bits(v.challenger, bits), LAMBDA r :
      [st |-> [v EXCEPT !.challenger = r.c],
       res |-> IF r.panic THEN "panic" ELSE "Ok", out |-> r.out])

\* check_pow_grinding taking the last element of the stride as the witness
check_pow_grinding_WitnessAtEnd(v, bits) ==
    IF bits = 0 THEN [st |-> v, res |-> "Ok", out |-> << >>]
    ELSE LET stride == IF v.padding THEN LEAN_ISA_VECTOR_LEN ELSE 1
         IN  IF v.index + stride > Len(v.proof_data)
             THEN [st |-> v, res |-> "ExceededTranscript", out |-> << >>]
             ELSE LET witness == v.proof_data[v.index + stride]
                      r == check_witness(v.challenger, bits, witness)
                  IN  [st |-> [v EXCEPT !.index = @ + stride, !.challenger = r.c],
                       res |-> IF r.panic THEN "panic"
                               ELSE IF r.ok THEN "Ok" ELSE "InvalidGrindingWitness",
                       out |-> << >>]

\* check_pow_grinding that drops the result of check_witness
check_pow_grinding_NoCheck(v, bits) ==
    IF bits = 0 THEN [st |-> v, res |-> "Ok", out |-> << >>]
    ELSE LET stride == IF v.padding THEN LEAN_ISA_VECTOR_LEN ELSE 1
         IN  IF v.index + stride > Len(v.proof_data)
             THEN [st |-> v, res |-> "ExceededTranscript", out |-> << >>]
             ELSE LET witness == v.proof_data[v.index + 1]
                      r == check_witness(v.challenger, bits, witness)
                  IN  [st |-> [v EXCEPT !.index = @ + stride, !.challenger = r.c],
                       res |-> IF r.panic THEN "panic" ELSE "Ok",
                       out |-> << >>]

\* check_pow_grinding with the compact stride in both modes
check_pow_grinding_CompactStride(v, bits) ==
    IF bits = 0 THEN [st |-> v, res |-> "Ok", out |-> << >>]
    ELSE LET stride == 1
         IN  IF v.index + stride > Len(v.proof_data)
             THEN [st |-> v, res |-> "ExceededTranscript", out |-> << >>]
             ELSE LET witness == v.proof_data[v.index + 1]
                      r == check_witness(v.challenger, bits, witness)
                  IN  [st |-> [v EXCEPT !.index = @ + stride, !.challenger = r.c],
                       res |-> IF r.panic THEN "panic"
                               ELSE IF r.ok THEN "Ok" ELSE "InvalidGrindingWitness",
                       out |-> << >>]

\* check_pow_grinding that checks the witness on a clone of the challenger
check_pow_grinding_OnClone(v, bits) ==
    IF bits = 0 THEN [st |-> v, res |-> "Ok", out |-> << >>]
    ELSE LET stride == IF v.padding THEN LEAN_ISA_VECTOR_LEN ELSE 1
         IN  IF v.index + stride > Len(v.proof_data)
             THEN [st |-> v, res |-> "ExceededTranscript", out |-> << >>]
             ELSE LET witness == v.proof_data[v.index + 1]
                      r == check_witness(v.challenger, bits, witness)
                  IN  [st |-> [v EXCEPT !.index = @ + stride],
                       res |-> IF r.panic THEN "panic"
                               ELSE IF r.ok THEN "Ok" ELSE "InvalidGrindingWitness",
                       out |-> << >>]

\* check_pow_grinding that advances the cursor before the bounds check
check_pow_grinding_AdvanceFirst(v, bits) ==
    IF bits = 0 THEN [st |-> v, res |-> "Ok", out |-> << >>]
    ELSE LET stride == IF v.padding THEN LEAN_ISA_VECTOR_LEN ELSE 1
         IN  IF v.index + stride > Len(v.proof_data)
             THEN [st |-> [v EXCEPT !.index = Len(v.proof_data)],
                   res |-> "ExceededTranscript", out |-> << >>]
             ELSE LET witness == v.proof_data[v.index + 1]
                      r == check_witness(v.challenger, bits, witness)
                  IN  [st |-> [v EXCEPT !.index = @ + stride, !.challenger = r.c],
                       res |-> IF r.panic THEN "panic"
                               ELSE IF r.ok THEN "Ok" ELSE "InvalidGrindingWitness",
                       out |-> << >>]

\* check_pow_grinding that rejects a non-zero pad after the witness
check_pow_grinding_ChecksPad(v, bits) ==
    IF bits = 0 THEN [st |-> v, res |-> "Ok", out |-> << >>]
    ELSE LET stride == IF v.padding THEN LEAN_ISA_VECTOR_LEN ELSE 1
         IN  IF v.index + stride > Len(v.proof_data)
             THEN [st |-> v, res |-> "ExceededTranscript", out |-> << >>]
             ELSE LET witness == v.proof_data[v.index + 1]
                      r == check_witness(v.challenger, bits, witness)
                      pad == SubSeq(v.proof_data, v.index + 2, v.index + stride)
                  IN  [st |-> [v EXCEPT !.index = @ + stride, !.challenger = r.c],
                       res |-> IF r.panic THEN "panic"
                               ELSE IF r.ok /\ pad = Zeros(stride - 1) THEN "Ok"
                               ELSE "InvalidGrindingWitness",
                       out |-> << >>]

check_pow_grinding(v, bits) ==
    IF bits = 0 THEN [st |-> v, res |-> "Ok", out |-> << >>]
    ELSE LET stride == IF v.padding THEN LEAN_ISA_VECTOR_LEN ELSE 1
         IN  IF v.index + stride > Len(v.proof_data)
             THEN [st |-> v, res |-> "ExceededTranscript", out |-> << >>]
             ELSE LET witness == v.proof_data[v.index + 1]
                      r == check_witness(v.challenger, bits, witness)
                  IN  [st |-> [v EXCEPT !.index = @ + stride, !.challenger = r.c],
                       res |-> IF r.panic THEN "panic"
                               ELSE IF r.ok THEN "Ok" ELSE "InvalidGrindingWitness",
                       out |-> << >>]

----------------------------------------------------------------------------
(* Inputs *)

Ramp(n, a) == [i \in 1..n |-> (a + i) % ORDER]

BaseInputs == { Ramp(3, 0), Ramp(RATE + 1, 1) }

e1 == EF(Ramp(DIMENSION, 0))
e2 == EF(Ramp(DIMENSION, 2))

ExtInputs == { << e2, e1 >> }

HintBaseInputs == { Ramp(LEAN_ISA_VECTOR_LEN, 3), Ramp(3, 1) }

HintExtInputs == { [i \in 1..LEAN_ISA_VECTOR_LEN |-> e1], << e1 >> }

\* The hint values of the second run, where the runs differ in their hints
HintBaseAlt == { Zeros(LEAN_ISA_VECTOR_LEN), Zeros(3) }

HintExtAlt == { [i \in 1..LEAN_ISA_VECTOR_LEN |-> e2], << e2 >> }

VecLens == { 2 }
SampleBits == { 1, FBits }
PowBits == 0 .. (FBits - 1)

\* The values the second run passes where the first passes the hint xs
AltHints(xs, S) == IF alt = "hint" THEN { ys \in S : Len(ys) = Len(xs) } ELSE { xs }

NoOp == [side |-> "-", op |-> "-", n |-> 0]

NoHist == [observed |-> FALSE, k |-> 0, before |-> 0, calls |-> 0, op |-> "-",
           pre |-> new, out |-> << >>]

EmptyProof(padding) == Proof(<< >>, 0, << >>, padding)

\* Proof data of length n: w in front, a 1 at position k (none for k = 0),
\* ZERO elsewhere
ProofData(n, w, k) ==
    [i \in 1..n |-> IF i = k THEN 1 ELSE IF i = 1 THEN w ELSE ZERO]

ProofLens == 0 .. MaxProofLen

ProofDataInputs ==
    { ProofData(n, w, 0) : n \in ProofLens, w \in F }
    \cup { ProofData(n, 1, k) : n \in ProofLens, k \in { DIMENSION + 1, LEAN_ISA_VECTOR_LEN } }

m1 == << Ramp(8, 0) >>
m2 == << Zeros(8), Ramp(8, 1) >>

MerkleInputs == { << m1 >>, << m2, m1 >> }

----------------------------------------------------------------------------
(* The prover's turn: both runs issue the same operation. *)

ProverTurn ==
    /\ phase = "prove"
    /\ Len(script) < MaxOps
    /\ ~prover.panicked /\ ~prover2.panicked

\* The challenge log entry of a sample, a sample_vec and a sample_bits
OfSample(ef) == << << ef.coeffs >> >>
OfSampleVec(efs) == << [i \in 1..Len(efs) |-> efs[i].coeffs] >>
OfSampleBits(b) == << << << b >> >> >>

PStep(op, n, arg, arg2, p, q, o, o2) ==
    /\ prover' = p
    /\ prover2' = q
    /\ script' = Append(script, [op |-> op, n |-> n])
    /\ log' = [log EXCEPT !.p = @ \o o, !.p2 = @ \o o2]
    /\ last' = [side |-> "P", op |-> op, n |-> n, arg |-> arg, arg2 |-> arg2,
                pre |-> prover, pre2 |-> prover2]
    /\ UNCHANGED <<ch, chHist, verifier, verifier2, phase, todo, alt>>

AddBaseScalars ==
    /\ ProverTurn
    /\ \E xs \in BaseInputs :
         PStep("add_base_scalars", Len(xs), xs, xs,
               add_base_scalars(prover, xs), add_base_scalars(prover2, xs), << >>, << >>)

AddExtensionScalars ==
    /\ ProverTurn
    /\ \E es \in ExtInputs :
         PStep("add_extension_scalars", Len(es), es, es,
               add_extension_scalars(prover, es), add_extension_scalars(prover2, es),
               << >>, << >>)

HintBaseScalars ==
    /\ ProverTurn
    /\ \E xs \in HintBaseInputs : \E ys \in AltHints(xs, HintBaseAlt) :
         PStep("hint_base_scalars", Len(xs), xs, ys,
               hint_base_scalars(prover, xs), hint_base_scalars(prover2, ys), << >>, << >>)

HintExtensionScalars ==
    /\ ProverTurn
    /\ \E es \in HintExtInputs : \E fs \in AltHints(es, HintExtAlt) :
         PStep("hint_extension_scalars", Len(es), es, fs,
               hint_extension_scalars(prover, es), hint_extension_scalars(prover2, fs),
               << >>, << >>)

Sample ==
    /\ ProverTurn
    /\ LET r == ProverState_sample(prover)
           r2 == ProverState_sample(prover2)
       IN  PStep("sample", 1, << >>, << >>, r.st, r2.st, OfSample(r.out), OfSample(r2.out))

SampleVec ==
    /\ ProverTurn
    /\ \E len \in VecLens :
         LET r == ProverState_sample_vec(prover, len)
             r2 == ProverState_sample_vec(prover2, len)
         IN  PStep("sample_vec", len, << >>, << >>, r.st, r2.st,
                   OfSampleVec(r.out), OfSampleVec(r2.out))

SampleBitsOp ==
    /\ ProverTurn
    /\ \E bits \in SampleBits :
         LET r == ProverState_sample_bits(prover, bits)
             r2 == ProverState_sample_bits(prover2, bits)
         IN  PStep("sample_bits", bits, << >>, << >>, r.st, r2.st,
                   OfSampleBits(r.out), OfSampleBits(r2.out))

\* The witness a prover state ends with after pow_grinding(bits), bits > 0
WitnessOf(pre, post) == post.proof_data[Len(pre.proof_data) + 1]

\* Both runs search the same batches in the same order: when the witness the
\* first run found is one the second run can find, the second finds it too.
PowGrinding ==
    /\ ProverTurn
    /\ \E bits \in PowBits :
         LET P == pow_grinding(prover, bits)
             Q == pow_grinding(prover2, bits)
         IN  \E p \in P :
               LET same == { q \in Q : bits > 0 => WitnessOf(prover2, q) = WitnessOf(prover, p) }
               IN  \E q \in (IF same # {} THEN same ELSE Q) :
                     PStep("pow_grinding", bits, << >>, << >>, p, q, << >>, << >>)

\* The proof is handed over: each verifier is built from its prover's proof.
Finish ==
    /\ phase = "prove"
    /\ Len(script) = MaxOps
    /\ ~prover.panicked /\ ~prover2.panicked
    /\ phase' = "replay"
    /\ todo' = script
    /\ verifier' = VerifierState_new(
                     Proof(prover.proof_data, proof_size(prover), << >>, prover.padding), new)
    /\ verifier2' = VerifierState_new(
                      Proof(prover2.proof_data, proof_size(prover2), << >>, prover2.padding), new)
    /\ last' = NoOp
    /\ UNCHANGED <<ch, chHist, prover, prover2, script, log, alt>>

----------------------------------------------------------------------------
(* The verifier's turn.  In phase "replay" it mirrors the prover's script;   *)
(* in phase "free" it runs any operation on the proof it was given.          *)

VAlive == last.side = "V" => (last.r.res # "panic" /\ last.r2.res # "panic")

VArgs(op, S) ==
    IF ~VAlive THEN {}
    ELSE IF phase = "replay"
    THEN IF todo # << >> /\ Head(todo).op = op THEN { Head(todo).n } ELSE {}
    ELSE IF phase = "free" /\ log.nv < MaxVOps THEN S
    ELSE {}

VStep(op, n, r, r2, o, o2) ==
    /\ verifier' = r.st
    /\ verifier2' = r2.st
    /\ todo' = IF phase = "replay" THEN Tail(todo) ELSE todo
    /\ log' = [log EXCEPT !.v = @ \o o, !.v2 = @ \o o2, !.nv = @ + 1,
                           !.paths = IF op = "receive_hint_merkle_path" /\ r.res = "Ok"
                                     THEN Append(@, r.out) ELSE @]
    /\ last' = [side |-> "V", op |-> op, n |-> n, pre |-> verifier, pre2 |-> verifier2,
                r |-> r, r2 |-> r2]
    /\ UNCHANGED <<ch, chHist, prover, prover2, phase, script, alt>>

NInputs == { 0, 1, DIMENSION, MaxProofLen + 1 }

NextBaseScalarsVec ==
    \E n \in VArgs("add_base_scalars", NInputs) :
        VStep("next_base_scalars_vec", n,
              next_base_scalars_vec(verifier, n), next_base_scalars_vec(verifier2, n),
              << >>, << >>)

NextExtensionScalarsVec ==
    \E n \in VArgs("add_extension_scalars", { 1, 2 }) :
        VStep("next_extension_scalars_vec", n,
              next_extension_scalars_vec(verifier, n), next_extension_scalars_vec(verifier2, n),
              << >>, << >>)

ReceiveHintBaseScalars ==
    \E n \in VArgs("hint_base_scalars", { 1, LEAN_ISA_VECTOR_LEN }) :
        VStep("receive_hint_base_scalars", n,
              receive_hint_base_scalars(verifier, n), receive_hint_base_scalars(verifier2, n),
              << >>, << >>)

ReceiveHintExtensionScalars ==
    \E n \in VArgs("hint_extension_scalars", { 1 }) :
        VStep("receive_hint_extension_scalars", n,
              receive_hint_extension_scalars(verifier, n),
              receive_hint_extension_scalars(verifier2, n), << >>, << >>)

ReceiveHintMerklePath ==
    \E n \in VArgs("hint_merkle_path", { 0 }) :
        VStep("receive_hint_merkle_path", n,
              receive_hint_merkle_path(verifier), receive_hint_merkle_path(verifier2),
              << >>, << >>)

VSample ==
    \E n \in VArgs("sample", { 1 }) :
        LET r == VerifierState_sample(verifier)
            r2 == VerifierState_sample(verifier2)
        IN  VStep("sample", n, r, r2, OfSample(r.out), OfSample(r2.out))

VSampleVec ==
    \E len \in VArgs("sample_vec", VecLens) :
        LET r == VerifierState_sample_vec(verifier, len)
            r2 == VerifierState_sample_vec(verifier2, len)
        IN  VStep("sample_vec", len, r, r2, OfSampleVec(r.out), OfSampleVec(r2.out))

VSampleBits ==
    \E bits \in VArgs("sample_bits", { 1 }) :
        LET r == VerifierState_sample_bits(verifier, bits)
            r2 == VerifierState_sample_bits(verifier2, bits)
        IN  VStep("sample_bits", bits, r, r2, OfSampleBits(r.out), OfSampleBits(r2.out))

CheckPowGrinding ==
    \E bits \in VArgs("pow_grinding", PowBits) :
        VStep("check_pow_grinding", bits,
              check_pow_grinding(verifier, bits), check_pow_grinding(verifier2, bits),
              << >>, << >>)

----------------------------------------------------------------------------
(* The stand-alone challenger *)

BlockInputs == { pad_to_rate(<< a, b >>) : a, b \in 0..1 }

ChalTurn == phase = "chal" /\ chHist.calls < MaxChalOps

ChalObserve ==
    /\ ChalTurn
    /\ \E block \in BlockInputs :
         /\ ch' = observe(ch, block)
         /\ chHist' = [observed |-> TRUE, k |-> 0, before |-> ch.perms,
                       calls |-> chHist.calls + 1, op |-> "observe", pre |-> ch,
                       out |-> block]
    /\ UNCHANGED <<prover, prover2, verifier, verifier2, phase, script, todo, log, last, alt>>

ChalSample ==
    /\ ChalTurn
    /\ LET r == sample(ch)
       IN  /\ ch' = r.c
           /\ chHist' = [chHist EXCEPT !.k = @ + 1, !.calls = @ + 1, !.op = "sample",
                                       !.pre = ch, !.out = r.out]
    /\ UNCHANGED <<prover, prover2, verifier, verifier2, phase, script, todo, log, last, alt>>

ChalSampleBits ==
    /\ ChalTurn
    /\ \E bits \in 0 .. (FBits - 1) :
         LET r == sample_bits(ch, bits)
         IN  /\ ch' = r.c
             /\ chHist' = [chHist EXCEPT !.k = @ + 1, !.calls = @ + 1, !.op = "sample_bits",
                                         !.pre = ch, !.out = << r.out >>]
    /\ UNCHANGED <<prover, prover2, verifier, verifier2, phase, script, todo, log, last, alt>>

----------------------------------------------------------------------------
(* Specifications *)

\* The log of a run: the challenges each side obtained, the number of
\* verifier operations, the Merkle-hint queue of the proof the verifier was
\* given and the paths it has handed out
NoLog == [p |-> << >>, p2 |-> << >>, v |-> << >>, v2 |-> << >>, nv |-> 0,
          hints |-> << >>, paths |-> << >>]

InitCommon ==
    /\ ch = new
    /\ chHist = NoHist
    /\ script = << >>
    /\ todo = << >>
    /\ last = NoOp

\* A prover in compact mode, a second prover in padded mode given the same
\* operations, then a verifier for each replaying them.
Init ==
    /\ InitCommon
    /\ log = NoLog
    /\ phase = "prove"
    /\ alt = "mode"
    /\ prover = ProverState_new(new, FALSE)
    /\ prover2 = ProverState_new(new, TRUE)
    /\ verifier = VerifierState_new(EmptyProof(FALSE), new)
    /\ verifier2 = VerifierState_new(EmptyProof(TRUE), new)

ProverNext ==
    \/ AddBaseScalars
    \/ AddExtensionScalars
    \/ HintBaseScalars
    \/ HintExtensionScalars
    \/ Sample
    \/ SampleVec
    \/ SampleBitsOp
    \/ PowGrinding

ReplayNext ==
    \/ NextBaseScalarsVec
    \/ NextExtensionScalarsVec
    \/ ReceiveHintBaseScalars
    \/ ReceiveHintExtensionScalars
    \/ VSample
    \/ VSampleVec
    \/ VSampleBits
    \/ CheckPowGrinding

Next == ProverNext \/ Finish \/ ReplayNext

Spec == Init /\ [][Next]_vars

\* Two runs in the same encoding mode that differ only in the hint values
InitHint ==
    /\ InitCommon
    /\ log = NoLog
    /\ phase = "prove"
    /\ alt = "hint"
    /\ \E padding \in BOOLEAN :
         /\ prover = ProverState_new(new, padding)
         /\ prover2 = ProverState_new(new, padding)
         /\ verifier = VerifierState_new(EmptyProof(padding), new)
         /\ verifier2 = VerifierState_new(EmptyProof(padding), new)

SpecHint == InitHint /\ [][Next]_vars

\* A verifier given any proof, running any operations on it
InitV ==
    /\ InitCommon
    /\ phase = "free"
    /\ alt = "none"
    /\ prover = ProverState_new(new, FALSE)
    /\ prover2 = ProverState_new(new, FALSE)
    /\ \E data \in ProofDataInputs, hints \in MerkleInputs, padding \in BOOLEAN :
         /\ log = [NoLog EXCEPT !.hints = hints]
         /\ verifier = VerifierState_new(Proof(data, Len(data), hints, padding), new)
         /\ verifier2 = VerifierState_new(Proof(data, Len(data), hints, padding), new)

NextV == ReplayNext \/ ReceiveHintMerklePath

SpecV == InitV /\ [][NextV]_vars

\* The stand-alone challenger under any sequence of observe and sample calls
InitChal ==
    /\ InitCommon
    /\ log = NoLog
    /\ phase = "chal"
    /\ alt = "none"
    /\ prover = ProverState_new(new, FALSE)
    /\ prover2 = ProverState_new(new, FALSE)
    /\ verifier = VerifierState_new(EmptyProof(FALSE), new)
    /\ verifier2 = VerifierState_new(EmptyProof(FALSE), new)

NextChal == ChalObserve \/ ChalSample \/ ChalSampleBits

SpecChal == InitChal /\ [][NextChal]_vars

----------------------------------------------------------------------------
(* Properties *)

IsSampling(op) == op \in { "sample", "sample_vec", "sample_bits" }

RECURSIVE NumSampling(_)
NumSampling(ops) ==
    IF ops = << >> THEN 0
    ELSE (IF IsSampling(Head(ops).op) THEN 1 ELSE 0) + NumSampling(Tail(ops))

\* The part of the script the verifier has replayed
Replayed == SubSeq(script, 1, Len(script) - Len(todo))

IsPrefix(a, b) == Len(a) <= Len(b) /\ a = SubSeq(b, 1, Len(a))

\* C1: a verifier built from the prover's proof, replaying the mirrored
\* operations in order, never gets an error and has obtained, after every
\* step, exactly the challenges the prover obtained at the same steps, in
\* compact mode (prover, verifier) and in padded mode (prover2, verifier2).
C1_ReplayAgrees ==
    phase = "replay" =>
        /\ last.side = "V" => (last.r.res = "Ok" /\ last.r2.res = "Ok")
        /\ Len(log.v) = NumSampling(Replayed)
        /\ Len(log.v2) = NumSampling(Replayed)
        /\ IsPrefix(log.v, log.p)
        /\ IsPrefix(log.v2, log.p2)

C1_Witness ==
    /\ phase = "replay"
    /\ todo = << >>
    /\ last.side = "V"
    /\ IsSampling(last.op)
    /\ log.v = log.p /\ log.v2 = log.p2
    /\ \E i \in 1..Len(script) : script[i].op = "pow_grinding" /\ script[i].n > 0
    /\ \E i \in 1..Len(script) : script[i].op = "add_extension_scalars"

\* C2: given the same operations with the same arguments, the compact prover
\* and the padded prover hold the same challenger and have obtained the same
\* challenges, whatever the layouts of their transcripts.
C2_ModesAgree ==
    (alt = "mode" /\ phase = "prove") =>
        /\ log.p = log.p2
        /\ prover.challenger = prover2.challenger

C2_Witness ==
    /\ alt = "mode" /\ phase = "prove"
    /\ last.side = "P" /\ IsSampling(last.op)
    /\ ~prover.panicked
    /\ Len(prover2.proof_data) > Len(prover.proof_data)
    /\ \E i \in 1..Len(script) : script[i].op = "add_extension_scalars"

\* C3: two runs that differ only in their hint values hold equal challengers
\* and have obtained equal challenges, on the prover side and on the verifier
\* side; every verifier operation other than receive_hint_* returns the same
\* in both.
C3_HintsTransparent ==
    alt = "hint" =>
        /\ prover.challenger = prover2.challenger
        /\ log.p = log.p2
        /\ phase = "replay" =>
             /\ verifier.challenger = verifier2.challenger
             /\ verifier.index = verifier2.index
             /\ log.v = log.v2
             /\ last.side = "V" =>
                  /\ last.r.res = last.r2.res
                  /\ last.op \notin { "receive_hint_base_scalars",
                                      "receive_hint_extension_scalars" }
                       => last.r.out = last.r2.out

C3_Witness ==
    /\ alt = "hint" /\ phase = "replay"
    /\ last.side = "V" /\ last.op = "sample"
    /\ verifier.proof_data # verifier2.proof_data
    /\ \E i \in 1..Len(script) : script[i].op = "add_base_scalars"
    /\ script[Len(script) - 1].op \in { "hint_base_scalars", "hint_extension_scalars" }

\* The verifier that meets a prover right before its pow_grinding: the
\* prover's challenger of that moment, the cursor where the witness went.
VerifierAt(pre, post) ==
    [VerifierState_new(Proof(post.proof_data, proof_size(post), << >>, post.padding),
                       pre.challenger)
       EXCEPT !.index = Len(pre.proof_data)]

PowRoundTrip(pre, post, bits) ==
    LET r == check_pow_grinding(VerifierAt(pre, post), bits)
    IN  r.res = "Ok" /\ r.st.index = Len(post.proof_data)

\* C4: after pow_grinding(bits) with 0 < bits < F::bits(), in either mode and
\* whichever witness the search returned, check_pow_grinding(bits) by a
\* verifier holding the prover's challenger of before the grind, its cursor
\* where the witness was appended, returns Ok.
C4_PowRoundTrip ==
    (last.side = "P" /\ last.op = "pow_grinding" /\ last.n > 0) =>
        /\ ~prover.panicked /\ ~prover2.panicked
        /\ PowRoundTrip(last.pre, prover, last.n)
        /\ PowRoundTrip(last.pre2, prover2, last.n)

C4_Witness ==
    /\ last.side = "P" /\ last.op = "pow_grinding" /\ last.n > 0
    /\ last.pre.proof_data # << >>
    /\ last.pre.challenger.perms > 0
    /\ WitnessOf(last.pre, prover) > 0

\* C5: observe applies the permutation once; a sample that finds the output
\* buffer applies none, returns it and leaves None; a sample that finds None
\* applies one; so k > 0 samples after an observe have applied k - 1 and k
\* samples on a fresh challenger have applied k.
C5_PermutationCount ==
    /\ chHist.op = "observe" => ch.perms = chHist.pre.perms + 1
    /\ chHist.op \in { "sample", "sample_bits" } =>
         /\ ch.output_buffer = None
         /\ ch.perms = chHist.pre.perms + (IF chHist.pre.output_buffer = None THEN 1 ELSE 0)
    /\ (chHist.op = "sample" /\ chHist.pre.output_buffer # None) =>
         chHist.out = unwrap(chHist.pre.output_buffer)
    /\ chHist.observed =>
         ch.perms = chHist.before + 1 + (IF chHist.k = 0 THEN 0 ELSE chHist.k - 1)
    /\ ~chHist.observed => ch.perms = chHist.k

C5_Witness ==
    /\ chHist.observed
    /\ chHist.k = 3
    /\ chHist.op = "sample"
    /\ ch.perms = chHist.before + 3

\* C6: next_base_scalars_vec(n) returns ExceededTranscript exactly when
\* index + n > proof_data.len(), and then changes nothing; otherwise it
\* returns proof_data[index..index+n], advances index by n and observes
\* those n scalars.
C6_NextBaseScalars ==
    (last.side = "V" /\ last.op = "next_base_scalars_vec") =>
        LET pre == last.pre
            slice == SubSeq(pre.proof_data, pre.index + 1, pre.index + last.n)
        IN  IF pre.index + last.n > Len(pre.proof_data)
            THEN last.r.res = "ExceededTranscript" /\ last.r.st = pre
            ELSE /\ last.r.res = "Ok"
                 /\ last.r.out = slice
                 /\ last.r.st = [pre EXCEPT !.index = pre.index + last.n,
                                           !.challenger = observe_slice(@, slice)]
                 /\ last.r.st.challenger.perms =
                      pre.challenger.perms + ((last.n + RATE - 1) \div RATE)

C6_Witness ==
    /\ last.side = "V" /\ last.op = "next_base_scalars_vec"
    /\ last.r.res = "ExceededTranscript"
    /\ last.pre.index > 0
    /\ last.pre.index + last.n = Len(last.pre.proof_data) + 1

\* C7: in padded mode next_extension_scalars_vec(1) on a whole word returns
\* the error ExceededTranscript when a position D..VLEN of the word is
\* non-zero, and otherwise the extension scalar of the first D positions.
C7_PadRejectedByError ==
    (/\ last.side = "V" /\ last.op = "next_extension_scalars_vec"
     /\ last.n = 1
     /\ last.pre.padding
     /\ last.pre.index + LEAN_ISA_VECTOR_LEN <= Len(last.pre.proof_data)) =>
        LET word == SubSeq(last.pre.proof_data, last.pre.index + 1,
                           last.pre.index + LEAN_ISA_VECTOR_LEN)
        IN  IF \E i \in (DIMENSION + 1) .. LEAN_ISA_VECTOR_LEN : word[i] # ZERO
            THEN last.r.res = "ExceededTranscript"
            ELSE /\ last.r.res = "Ok"
                 /\ last.r.out = << EF(SubSeq(word, 1, DIMENSION)) >>

\* C8: check_pow_grinding(bits) with bits > 0 and enough data observes
\* proof_data[index] and returns Ok exactly when the sample_bits(bits) that
\* follows is 0, and InvalidGrindingWitness otherwise.
C8_PowCheck ==
    (/\ last.side = "V" /\ last.op = "check_pow_grinding" /\ last.n > 0
     /\ last.r.res # "ExceededTranscript") =>
        LET pre == last.pre
            witness == pre.proof_data[pre.index + 1]
            sb == sample_bits(observe(pre.challenger, pad_to_rate(<< witness >>)), last.n)
        IN  /\ last.r.res = (IF sb.out = 0 THEN "Ok" ELSE "InvalidGrindingWitness")
            /\ last.r.st.challenger = sb.c

C8_Witness ==
    /\ last.side = "V" /\ last.op = "check_pow_grinding" /\ last.n > 0
    /\ last.r.res = "InvalidGrindingWitness"
    /\ last.pre.proof_data[last.pre.index + 1] = ZERO
    /\ \E w \in F :
         check_pow_grinding([last.pre EXCEPT !.proof_data[last.pre.index + 1] = w],
                            last.n).res = "Ok"

\* C9: n_zeros never exceeds the transcript length; the compact prover keeps
\* n_zeros = 0, so its proof_size is its transcript length; the padded
\* prover's proof_size is the length of the compact prover's transcript for
\* the same operations: an extension scalar adds VLEN to its length and
\* VLEN - D to n_zeros, a PoW witness VLEN to its length and 1 to proof_size.
C9_ProofSize ==
    (alt = "mode" /\ phase = "prove") =>
        /\ prover.n_zeros = 0
        /\ proof_size(prover) = Len(prover.proof_data)
        /\ prover2.n_zeros <= Len(prover2.proof_data)
        /\ proof_size(prover2) = Len(prover.proof_data)
        /\ (last.side = "P" /\ last.op = "add_extension_scalars") =>
             /\ Len(prover2.proof_data) =
                  Len(last.pre2.proof_data) + LEAN_ISA_VECTOR_LEN * last.n
             /\ prover2.n_zeros =
                  last.pre2.n_zeros + (LEAN_ISA_VECTOR_LEN - DIMENSION) * last.n
        /\ (last.side = "P" /\ last.op = "pow_grinding" /\ last.n > 0) =>
             /\ Len(prover2.proof_data) = Len(last.pre2.proof_data) + LEAN_ISA_VECTOR_LEN
             /\ proof_size(prover2) = proof_size(last.pre2) + 1

C9_Witness ==
    /\ alt = "mode" /\ phase = "prove"
    /\ last.side = "P" /\ last.op = "pow_grinding" /\ last.n > 0
    /\ last.pre2.n_zeros > 0
    /\ \E i \in 1..Len(script) : script[i].op = "add_extension_scalars"
    /\ proof_size(prover2) < Len(prover2.proof_data)

\* C10: in compact mode hint_base_scalars(xs) and hint_extension_scalars(xs)
\* succeed for every length of xs and append exactly xs to the transcript.
C10_CompactHintAnyLength ==
    (/\ last.side = "P"
     /\ last.op \in { "hint_base_scalars", "hint_extension_scalars" }
     /\ ~last.pre.padding) =>
        /\ ~prover.panicked
        /\ prover.proof_data =
             last.pre.proof_data
               \o (IF last.op = "hint_base_scalars" THEN last.arg
                   ELSE flatten_scalars_to_base(last.arg))

\* C11: in padded mode the transcript length is a multiple of VLEN after
\* every prover operation that did not panic; add_base_scalars(xs) appends
\* the ZERO elements missing to the next multiple and counts them in n_zeros.
C11_PaddedAligned ==
    (/\ alt = "mode" /\ phase = "prove"
     /\ last.side = "P" /\ ~prover2.panicked) =>
        /\ Len(prover2.proof_data) % LEAN_ISA_VECTOR_LEN = 0
        /\ last.op = "add_base_scalars" =>
             LET missing == (LEAN_ISA_VECTOR_LEN - (Len(last.arg) % LEAN_ISA_VECTOR_LEN))
                              % LEAN_ISA_VECTOR_LEN
             IN  /\ prover2.proof_data = last.pre2.proof_data \o last.arg \o Zeros(missing)
                 /\ prover2.n_zeros = last.pre2.n_zeros + missing

\* The stride of a PoW witness in the transcript
Stride(padding) == IF padding THEN LEAN_ISA_VECTOR_LEN ELSE 1

\* C12: check_pow_grinding(bits) with bits > 0 returns ExceededTranscript
\* exactly when index + stride > proof_data.len(), stride being VLEN in
\* padded mode and 1 in compact mode; otherwise it advances index by stride,
\* the number of elements pow_grinding(bits) appends in the same mode.
C12_PowStride ==
    (last.side = "V" /\ last.op = "check_pow_grinding" /\ last.n > 0) =>
        LET pre == last.pre
            stride == Stride(pre.padding)
        IN  /\ (last.r.res = "ExceededTranscript")
                 = (pre.index + stride > Len(pre.proof_data))
            /\ last.r.res # "ExceededTranscript" =>
                 /\ last.r.st.index = pre.index + stride
                 /\ \A p \in pow_grinding(ProverState_new(pre.challenger, pre.padding), last.n) :
                      Len(p.proof_data) = stride

C12_Witness ==
    /\ last.side = "V" /\ last.op = "check_pow_grinding" /\ last.n > 0
    /\ last.pre.padding
    /\ last.r.res = "ExceededTranscript"
    /\ last.pre.index > 0
    /\ last.pre.index + 1 <= Len(last.pre.proof_data)

\* C13: the output buffer is None or the rate part of the sponge state; it
\* is None initially and right after every sample, Some right after every
\* observe; observe(block) permutes the state whose rate part is the block
\* and whose capacity part is the one of before, and a sample that finds the
\* buffer leaves the sponge state alone.
C13_OutputBuffer ==
    phase = "chal" =>
        /\ ch.output_buffer \in { None, Some(SubSeq(ch.sponge_state, 1, RATE)) }
        /\ chHist.calls = 0 => ch.output_buffer = None
        /\ chHist.op \in { "sample", "sample_bits" } =>
             /\ ch.output_buffer = None
             /\ chHist.pre.output_buffer # None =>
                  ch.sponge_state = chHist.pre.sponge_state
             /\ chHist.pre.output_buffer = None =>
                  ch.sponge_state = Permute(chHist.pre.sponge_state)
        /\ chHist.op = "observe" =>
             /\ ch.output_buffer = Some(SubSeq(ch.sponge_state, 1, RATE))
             /\ ch.sponge_state =
                  Permute([i \in 1..WIDTH |->
                             IF i <= RATE THEN chHist.out[i]
                             ELSE chHist.pre.sponge_state[i]])

C13_Witness ==
    /\ phase = "chal"
    /\ chHist.op = "observe"
    /\ chHist.pre.output_buffer # None
    /\ \E i \in (RATE + 1) .. WIDTH : chHist.pre.sponge_state[i] # ZERO
    /\ ch.output_buffer # chHist.pre.output_buffer
    /\ ch.output_buffer # Some(chHist.out)

\* The predicate of the search: observing pad_to_rate([w]) on a clone of c
\* and then calling sample_bits(bits) gives 0
ValidWitness(c, bits, w) ==
    sample_bits(observe(c, pad_to_rate(<< w >>)), bits).out = 0

\* The batch of LANES consecutive candidates that holds w
BatchOf(w) == (w - (w % LANES)) .. (w - (w % LANES) + LANES - 1)

LeastWitness(pre, post, bits) ==
    LET w == WitnessOf(pre, post)
    IN  /\ ValidWitness(pre.challenger, bits, w)
        /\ \A y \in 0 .. (w - 1) : ~ValidWitness(pre.challenger, bits, y)

BatchLeastWitness(pre, post, bits) ==
    LET w == WitnessOf(pre, post)
    IN  /\ w \in F
        /\ ValidWitness(pre.challenger, bits, w)
        /\ \A y \in BatchOf(w) : y < w => ~ValidWitness(pre.challenger, bits, y)

PowLockStep(pre, post, bits) ==
    LET r == check_pow_grinding(VerifierAt(pre, post), bits)
    IN  /\ r.st.challenger.sponge_state = post.challenger.sponge_state
        /\ r.st.challenger.output_buffer = post.challenger.output_buffer
        /\ post.challenger.output_buffer = None
        /\ VerifierState_sample(r.st).out = ProverState_sample(post).out

\* C15: from equal challengers, after pow_grinding(bits) on the prover and
\* check_pow_grinding(bits) on the verifier, bits > 0, the two challengers
\* have the same sponge state and the same output buffer, and the next
\* sample returns the same on both sides; a replay that ends with the check
\* leaves the verifier with the prover's challenger.
C15_PowLockStep ==
    /\ (last.side = "P" /\ last.op = "pow_grinding" /\ last.n > 0) =>
         /\ PowLockStep(last.pre, prover, last.n)
         /\ PowLockStep(last.pre2, prover2, last.n)
    /\ (/\ phase = "replay" /\ todo = << >>
        /\ last.side = "V" /\ last.op = "check_pow_grinding" /\ last.n > 0) =>
         /\ verifier.challenger = prover.challenger
         /\ verifier2.challenger = prover2.challenger

C15_Witness ==
    /\ phase = "replay" /\ todo = << >>
    /\ last.side = "V" /\ last.op = "check_pow_grinding" /\ last.n > 0
    /\ last.pre.challenger.output_buffer # None
    /\ verifier.challenger.output_buffer = None
    /\ last.pre.proof_data[last.pre.index + 1] # ZERO
    /\ verifier2.index > verifier.index

\* C16: the verifier's index never decreases and stays within
\* 0..proof_data.len() over every sequence of verifier operations, failing
\* ones included; sample, sample_vec, sample_bits and
\* receive_hint_merkle_path leave it unchanged.
C16_CursorMonotone ==
    /\ verifier.index \in 0 .. Len(verifier.proof_data)
    /\ last.side = "V" =>
         /\ last.r.st = verifier
         /\ verifier.proof_data = last.pre.proof_data
         /\ verifier.index >= last.pre.index
         /\ last.r.res = "panic" => last.op = "next_extension_scalars_vec"
         /\ last.op \in { "sample", "sample_vec", "sample_bits",
                          "receive_hint_merkle_path" } =>
              verifier.index = last.pre.index

C16_Witness ==
    /\ phase = "free"
    /\ last.side = "V" /\ last.op = "receive_hint_base_scalars"
    /\ last.r.res = "ExceededTranscript"
    /\ last.pre.index > 0
    /\ verifier.index = last.pre.index
    /\ verifier.index < Len(verifier.proof_data)

\* C17: the k-th successful receive_hint_merkle_path() returns the k-th
\* entry of the merkle_hints queue of the proof; a call on an empty queue
\* returns ExceededTranscript; no call changes index, the sponge state or
\* the output buffer.
C17_MerkleFifo ==
    phase = "free" =>
        /\ Len(log.paths) <= Len(log.hints)
        /\ \A k \in 1 .. Len(log.paths) : log.paths[k] = log.hints[k]
        /\ verifier.merkle_hints = SubSeq(log.hints, Len(log.paths) + 1, Len(log.hints))
        /\ (last.side = "V" /\ last.op = "receive_hint_merkle_path") =>
             /\ (last.r.res = "ExceededTranscript") = (last.pre.merkle_hints = << >>)
             /\ last.r.res \in { "Ok", "ExceededTranscript" }
             /\ last.r.res = "Ok" => last.r.out = log.hints[Len(log.paths)]
             /\ verifier.index = last.pre.index
             /\ verifier.challenger.sponge_state = last.pre.challenger.sponge_state
             /\ verifier.challenger.output_buffer = last.pre.challenger.output_buffer

C17_Witness ==
    /\ phase = "free"
    /\ last.side = "V" /\ last.op = "receive_hint_merkle_path" /\ last.r.res = "Ok"
    /\ Len(log.paths) = 2
    /\ log.hints[1] # log.hints[2]
    /\ last.r.out = log.hints[2]
    /\ verifier.merkle_hints = << >>

----------------------------------------------------------------------------
(* pow_grinding step by step: the workers evaluate the batches in any      *)
(* order, then the witness of one successful batch is selected, observed   *)
(* and appended.  last holds the search: the prover of before, the batches *)
(* evaluated and the winners found.                                        *)

GrindAbsorb ==
    /\ phase = "prove"
    /\ Len(script) < MaxOps
    /\ \E xs \in BaseInputs :
         /\ prover' = add_base_scalars(prover, xs)
         /\ script' = Append(script, [op |-> "add_base_scalars", n |-> Len(xs)])
    /\ last' = NoOp
    /\ UNCHANGED <<ch, chHist, prover2, verifier, verifier2, phase, todo, log, alt>>

GrindStart ==
    /\ phase = "prove"
    /\ Len(script) < MaxOps
    /\ ~prover.panicked
    /\ \E bits \in 1 .. (FBits - 1) :
         last' = [side |-> "G", op |-> "search", n |-> bits, pre |-> prover,
                  done |-> {}, found |-> {}]
    /\ phase' = "grind"
    /\ UNCHANGED <<ch, chHist, prover, prover2, verifier, verifier2, script, todo, log, alt>>

GrindWorker ==
    /\ phase = "grind"
    /\ \E b \in BatchBases \ last.done :
         LET r == search_batch(prover, last.n, b)
         IN  /\ prover' = r.p
             /\ last' = [last EXCEPT !.done = @ \cup {b}, !.found = @ \cup r.found]
    /\ UNCHANGED <<ch, chHist, prover2, verifier, verifier2, phase, script, todo, log, alt>>

\* The search ends as soon as a batch has succeeded, or with a panic when
\* every batch has failed.
GrindSelect ==
    /\ phase = "grind"
    /\ IF last.found # {}
       THEN \E q \in pow_grinding(prover, last.n) :
              /\ WitnessOf(prover, q) \in last.found
              /\ prover' = q
       ELSE /\ last.done = BatchBases
            /\ prover' = [prover EXCEPT !.panicked = TRUE]
    /\ phase' = "prove"
    /\ script' = Append(script, [op |-> "pow_grinding", n |-> last.n])
    /\ last' = [last EXCEPT !.op = "pow_grinding"]
    /\ UNCHANGED <<ch, chHist, prover2, verifier, verifier2, todo, log, alt>>

InitGrind ==
    /\ InitCommon
    /\ log = NoLog
    /\ phase = "prove"
    /\ alt = "none"
    /\ \E padding \in BOOLEAN : prover = ProverState_new(new, padding)
    /\ prover2 = ProverState_new(new, FALSE)
    /\ verifier = VerifierState_new(EmptyProof(FALSE), new)
    /\ verifier2 = VerifierState_new(EmptyProof(FALSE), new)

NextGrind == GrindAbsorb \/ GrindStart \/ GrindWorker \/ GrindSelect

SpecGrind == InitGrind /\ [][NextGrind]_vars

\* C18: while the workers of pow_grinding evaluate batches, in any
\* interleaving, the prover's sponge state, output buffer and transcript are
\* those of before the call; when a witness has been selected the sponge has
\* been permuted exactly once, by the observe of that witness, and exactly
\* one witness has been appended to the transcript.
C18_SearchLeavesSponge ==
    /\ phase = "grind" => prover = last.pre
    /\ (phase = "prove" /\ last.side = "G" /\ ~prover.panicked) =>
         LET pre == last.pre
             w == WitnessOf(pre, prover)
             c1 == observe(pre.challenger, pad_to_rate(<< w >>))
         IN  /\ w \in last.found
             /\ prover.challenger.perms = pre.challenger.perms + 1
             /\ prover.challenger.sponge_state = c1.sponge_state
             /\ prover.proof_data =
                  pre.proof_data \o << w >>
                    \o (IF pre.padding THEN Zeros(LEAN_ISA_VECTOR_LEN - 1) ELSE << >>)

C18_Witness ==
    /\ phase = "prove" /\ last.side = "G" /\ ~prover.panicked
    /\ Cardinality(last.found) >= 2
    /\ \E y \in last.found : y < WitnessOf(last.pre, prover)
    /\ last.pre.padding
    /\ last.pre.challenger.perms > 0

\* C19: when next_base_scalars_vec(n), receive_hint_base_scalars(n) or
\* check_pow_grinding(bits) returns ExceededTranscript, index, the sponge
\* state, the output buffer and the Merkle-hint queue are those of before
\* the call, and every read that fits what remains then succeeds on the
\* elements that follow the cursor of before the failed call.
C19_FailedReadNoEffect ==
    (/\ last.side = "V"
     /\ last.op \in { "next_base_scalars_vec", "receive_hint_base_scalars",
                      "check_pow_grinding" }
     /\ last.r.res = "ExceededTranscript") =>
        LET pre == last.pre
        IN  /\ verifier.index = pre.index
            /\ verifier.challenger.sponge_state = pre.challenger.sponge_state
            /\ verifier.challenger.output_buffer = pre.challenger.output_buffer
            /\ verifier.merkle_hints = pre.merkle_hints
            /\ last.r.out = << >>
            /\ \A m \in 0 .. (Len(pre.proof_data) - pre.index) :
                 LET r == receive_hint_base_scalars(verifier, m)
                     o == next_base_scalars_vec(verifier, m)
                 IN  /\ r.res = "Ok" /\ o.res = "Ok"
                     /\ r.out = SubSeq(pre.proof_data, pre.index + 1, pre.index + m)
                     /\ o.out = r.out
                     /\ o.st.challenger = observe_slice(pre.challenger, r.out)

C19_Witness ==
    /\ last.side = "V" /\ last.op = "check_pow_grinding"
    /\ last.r.res = "ExceededTranscript"
    /\ last.pre.padding
    /\ last.pre.index > 0
    /\ last.pre.index < Len(last.pre.proof_data)
    /\ last.pre.challenger.output_buffer # None

\* The challenger after observing k elements of stride base scalars each,
\* read one after the other from position index of data
RECURSIVE ObserveElements(_, _, _, _, _)
ObserveElements(c, data, index, stride, k) ==
    IF k = 0 THEN c
    ELSE ObserveElements(observe_slice(c, SubSeq(data, index + 1, index + stride)),
                         data, index + stride, stride, k - 1)

\* C20: when next_extension_scalars_vec(n) returns ExceededTranscript, only
\* k < n whole elements remained, k = floor((len - index) / stride), stride
\* being D in compact mode and VLEN in padded mode; index has advanced by
\* k * stride, those k elements have been observed, and no extension scalar
\* is returned.
C20_ExtensionReadNotAtomic ==
    (/\ last.side = "V" /\ last.op = "next_extension_scalars_vec"
     /\ last.r.res = "ExceededTranscript") =>
        LET pre == last.pre
            stride == IF pre.padding THEN LEAN_ISA_VECTOR_LEN ELSE DIMENSION
            k == (Len(pre.proof_data) - pre.index) \div stride
        IN  /\ k < last.n
            /\ verifier.index = pre.index + k * stride
            /\ verifier.challenger =
                 ObserveElements(pre.challenger, pre.proof_data, pre.index, stride, k)
            /\ verifier.challenger.perms = pre.challenger.perms + k
            /\ last.r.out = << >>

C20_Witness ==
    /\ last.side = "V" /\ last.op = "next_extension_scalars_vec"
    /\ last.r.res = "ExceededTranscript"
    /\ last.n = 2
    /\ last.pre.padding
    /\ verifier.index = last.pre.index + LEAN_ISA_VECTOR_LEN
    /\ verifier.challenger.sponge_state # last.pre.challenger.sponge_state
    /\ last.pre.proof_data[last.pre.index + 1] # ZERO

----------------------------------------------------------------------------
(* Two padded verifiers on proofs that differ only in the VLEN - 1         *)
(* elements that follow the first element of the first word.               *)

\* xs with a 1 at position k
WithPad(xs, k) == [xs EXCEPT ![k] = 1]

InitPad ==
    /\ InitCommon
    /\ log = NoLog
    /\ phase = "free"
    /\ alt = "pad"
    /\ prover = ProverState_new(new, TRUE)
    /\ prover2 = ProverState_new(new, TRUE)
    /\ \E n \in { m \in ProofLens : m >= LEAN_ISA_VECTOR_LEN }, w \in F,
          k \in 2 .. LEAN_ISA_VECTOR_LEN :
         /\ verifier = VerifierState_new(
                         Proof(ProofData(n, w, 0), n, << >>, TRUE), new)
         /\ verifier2 = VerifierState_new(
                          Proof(WithPad(ProofData(n, w, 0), k), n, << >>, TRUE), new)

NextPad == CheckPowGrinding \/ VSample \/ VSampleBits \/ NextExtensionScalarsVec

SpecPad == InitPad /\ [][NextPad]_vars

\* The two verifiers agree on the challenger and on the cursor
SameView(v, w) == v.challenger = w.challenger /\ v.index = w.index

\* C21: in padded mode, on two proofs that differ only in the VLEN - 1
\* elements following the witness, check_pow_grinding(bits) returns the same
\* result and leaves the same challenger and cursor, and the challenges
\* sampled afterwards are the same; next_extension_scalars_vec(1) on the
\* same two proofs accepts the word with the ZERO pad and does not accept
\* the word with a non-zero pad.
C21_PowPadIgnored ==
    (alt = "pad" /\ last.side = "V" /\ SameView(last.pre, last.pre2)) =>
        /\ last.op \in { "check_pow_grinding", "sample", "sample_bits" } =>
             /\ last.r.res = last.r2.res
             /\ last.r.out = last.r2.out
             /\ SameView(verifier, verifier2)
             /\ log.v = log.v2
        /\ (last.op = "check_pow_grinding" /\ last.n > 0 /\ last.pre.index = 0) =>
             /\ last.r.res \in { "Ok", "InvalidGrindingWitness" }
             /\ verifier.index = LEAN_ISA_VECTOR_LEN
             /\ verifier.challenger =
                  sample_bits(observe(last.pre.challenger,
                                      pad_to_rate(<< last.pre.proof_data[1] >>)),
                              last.n).c
        /\ (last.op = "next_extension_scalars_vec" /\ last.pre.index = 0) =>
             /\ last.n = 1 => last.r.res = "Ok"
             /\ (\E i \in (DIMENSION + 1) .. LEAN_ISA_VECTOR_LEN :
                    last.pre2.proof_data[i] # ZERO) => last.r2.res = "panic"

C21_Witness ==
    /\ alt = "pad"
    /\ last.side = "V" /\ last.op = "sample"
    /\ verifier.index = LEAN_ISA_VECTOR_LEN
    /\ verifier.challenger.perms = 2
    /\ SameView(verifier, verifier2)
    /\ verifier.proof_data # verifier2.proof_data
    /\ verifier2.proof_data[LEAN_ISA_VECTOR_LEN] # ZERO
    /\ log.v = log.v2 /\ log.v # << >>

====
